---- MODULE Spec2Model ----
(***************************************************************************)
(* Model of main.py: a Telegram bot that relays plain-text messages to the *)
(* Gemini text API and runs a one-route health HTTP server on a daemon     *)
(* thread.                                                                 *)
(*                                                                         *)
(* Calls into the two libraries (send_chat_action, reply_text,             *)
(* generate_content, response.text, HTTPServer bind) are the environment:  *)
(* each either returns or raises, chosen nondeterministically.  A handler  *)
(* is cut into steps at its await points and at the blocking AI call.      *)
(* trace[e] is the history of every observable effect of handling event e, *)
(* in program order: log records, calls handed to the transport, calls     *)
(* handed to the AI client, and what those calls answered.                 *)
(***************************************************************************)
EXTENDS Integers, Sequences, FiniteSets, TLC

VARIABLES
    env,        \* the environment variables read at lines 27, 28 and 52
    pc,         \* position of the main thread (module level, then main())
    exitCode,   \* -1 while the process runs, else the code given to exit()
    configured, \* genai.configure(api_key=...) has been called
    model,      \* TelegramBot.model, "" before TelegramBot() is constructed
    appBuilt,   \* Application.builder().token(...).build() has returned
    handlers,   \* handlers registered with app.add_handler, in order
    errorHandlers, \* callbacks registered with app.add_error_handler
    health,     \* state of the health thread
    httpReq,    \* GET requests accepted by the HTTP server, not yet answered
    httpResp,   \* responses written by HealthHandler.do_GET
    events,     \* inbound updates delivered by polling, in arrival order
    hpc,        \* hpc[e]: position of the handling of events[e]
    loc,        \* loc[e]: locals of the handler invocation for events[e]
    busy,       \* the event whose synchronous AI call blocks the event loop, or 0
    syslog,     \* log records of start-up and of the health thread, in order
    trace       \* trace[e]: history of the observable effects of handling events[e]

vars == <<env, pc, exitCode, configured, model, appBuilt, handlers,
          errorHandlers, health, httpReq, httpResp, events, hpc, loc, busy,
          syslog, trace>>

bootVars == <<pc, exitCode, configured, model, appBuilt, handlers, errorHandlers>>
httpVars == <<health, httpReq, httpResp>>
botVars  == <<events, hpc, loc, busy>>

----------------------------------------------------------------------------
(* Bounds of the model *)

\* number of inbound updates delivered in one run of Spec
MaxEvents == 2
\* number of inbound updates delivered in one run of SpecHealth
MaxHealthEvents == 1
\* number of GET requests sent to the health endpoint in one run of SpecHealth
MaxRequests == 1

----------------------------------------------------------------------------
(* Values *)

\* os.getenv returns None for an unset variable
None == "<None>"

\* values TELEGRAM_BOT_TOKEN and GEMINI_API_KEY may have after load_dotenv()
SecretValues == {None, "", "secret"}

\* values PORT may have
PortValues == {None, "8080"}

DefaultPort == 10000

\* a message text of 61 characters, longer than the preview the log keeps
LongText == "xxxxxxxxxxxxxxxxxxxxxxxxxxxxxxxxxxxxxxxxxxxxxxxxxYZwwwwwwwwww"

\* the inbound updates polling may deliver (line 146 asks for all update
\* types): the kind of update, and the chat identifier, the sender's first name
\* and the text of its effective message.  update.message is the message of a
\* "message" update and None for every other kind, such as an edited message.
Updates ==
    { [kind |-> "message", chat |-> 101, name |-> "Ann", text |-> "/start"],
      [kind |-> "message", chat |-> 101, name |-> "Ann", text |-> "/help"],
      [kind |-> "message", chat |-> 102, name |-> "Bob", text |-> "/other"],
      [kind |-> "message", chat |-> 101, name |-> "Ann", text |-> "hi"],
      [kind |-> "message", chat |-> 102, name |-> "Bob", text |-> LongText],
      [kind |-> "edited_message", chat |-> 102, name |-> "Bob", text |-> "/start"],
      [kind |-> "edited_message", chat |-> 102, name |-> "Bob", text |-> "/help"],
      [kind |-> "edited_message", chat |-> 102, name |-> "Bob", text |-> "hi"] }

\* str(e) of the AttributeError raised by update.message.<attr> when
\* update.message is None
NoReplyText == "'NoneType' object has no attribute 'reply_text'"
NoText == "'NoneType' object has no attribute 'text'"

\* texts response.text may hold
AiTexts == {"T1", "T2"}

\* str(e) of what generate_content may raise, and of what response.text may raise
GenerateErrors == {"429 quota exceeded"}
TextErrors == {"response.text: no valid Part"}
\* str(e) of what a call to the Telegram transport may raise
SendErrors == {"Timed out"}

ModelName == "gemini-1.5-flash"

WelcomeMessage == "Hello! I'm your AI assistant powered by The Firm Team. ..."
HelpText == "**How to use this bot:** ..."
ErrorMessage == "Sorry, I encountered an error while processing your message. Please try again in a moment."

HealthStatus == 200
HealthContentType == "text/plain"
HealthBody == "Telegram Bot is running!"

----------------------------------------------------------------------------
(* Records of the history *)

\* the `upd` field of a record that carries no update
NoUpdate == [kind |-> "", chat |-> 0, name |-> "", text |-> ""]

\* a record of the logging sink: logger.info / logger.error
Log(level, msg, arg, arg2) ==
    [op |-> "log", chat |-> 0, text |-> msg, mode |-> level,
     arg |-> arg, arg2 |-> arg2, upd |-> NoUpdate]

\* a log record whose message formats a whole update and an error:
\* f"Update {update} caused error {context.error}"; the string form of the
\* update carries its chat, its sender's first name and its message text
LogUpdate(level, msg, update, error) ==
    [op |-> "log", chat |-> 0, text |-> msg, mode |-> level,
     arg |-> error, arg2 |-> "", upd |-> update]

\* context.bot.send_chat_action(chat_id=..., action=...)
SendChatAction(chat, action) ==
    [op |-> "chat_action", chat |-> chat, text |-> action, mode |-> "",
     arg |-> "", arg2 |-> "", upd |-> NoUpdate]

\* update.message.reply_text(text, parse_mode=...)
ReplyText(chat, body, parseMode) ==
    [op |-> "reply", chat |-> chat, text |-> body, mode |-> parseMode,
     arg |-> "", arg2 |-> "", upd |-> NoUpdate]

\* self.model.generate_content(prompt), on the model named by self.model
GenerateContent(prompt, modelName) ==
    [op |-> "ai", chat |-> 0, text |-> prompt, mode |-> modelName,
     arg |-> "", arg2 |-> "", upd |-> NoUpdate]

\* what a library call answered: "ai_text" (response.text held `text`),
\* "ai_raise", "chat_action_raise", "reply_raise" (the call raised, str(e) = detail)
Answer(kind, text, detail) ==
    [op |-> kind, chat |-> 0, text |-> text, mode |-> "",
     arg |-> detail, arg2 |-> "", upd |-> NoUpdate]

----------------------------------------------------------------------------
(* Start-up: module level (lines 27-39) and main() (lines 123-146) *)

\* SecretMissing testing `value is None` where the code tests `not value`
SecretMissingIsNone(value) == value = None

\* `not value`: None and the empty string are both falsy
SecretMissing(value) == value = None \/ value = ""

\* the state when the interpreter reaches line 27, PORT being one of `ports`
InitWith(ports) ==
    /\ env \in [token : SecretValues, key : SecretValues, port : ports]
    /\ pc = "check_token"
    /\ exitCode = -1
    /\ configured = FALSE
    /\ model = ""
    /\ appBuilt = FALSE
    /\ handlers = <<>>
    /\ errorHandlers = <<>>
    /\ health = "not_started"
    /\ httpReq = <<>>
    /\ httpResp = <<>>
    /\ events = <<>>
    /\ hpc = <<>>
    /\ loc = <<>>
    /\ busy = 0
    /\ syslog = <<>>
    /\ trace = <<>>

Init == InitWith({None})

InitHealth == InitWith(PortValues)

\* lines 30-32
CheckToken ==
    /\ pc = "check_token"
    /\ IF SecretMissing(env.token)
         THEN /\ syslog' = Append(syslog, Log("ERROR",
                      "TELEGRAM_BOT_TOKEN not found in environment variables", "", ""))
              /\ exitCode' = 1
              /\ pc' = "exited"
         ELSE /\ pc' = "check_key"
              /\ UNCHANGED <<syslog, exitCode>>
    /\ UNCHANGED <<env, configured, model, appBuilt, handlers, errorHandlers>>
    /\ UNCHANGED <<httpVars, botVars, trace>>

\* lines 34-36
CheckKey ==
    /\ pc = "check_key"
    /\ IF SecretMissing(env.key)
         THEN /\ syslog' = Append(syslog, Log("ERROR",
                      "GEMINI_API_KEY not found in environment variables", "", ""))
              /\ exitCode' = 1
              /\ pc' = "exited"
         ELSE /\ pc' = "configure"
              /\ UNCHANGED <<syslog, exitCode>>
    /\ UNCHANGED <<env, configured, model, appBuilt, handlers, errorHandlers>>
    /\ UNCHANGED <<httpVars, botVars, trace>>

\* line 39
Configure ==
    /\ pc = "configure"
    /\ configured' = TRUE
    /\ pc' = "main"
    /\ UNCHANGED <<env, exitCode, model, appBuilt, handlers, errorHandlers, syslog>>
    /\ UNCHANGED <<httpVars, botVars, trace>>

\* line 125
MainStart ==
    /\ pc = "main"
    /\ syslog' = Append(syslog, Log("INFO", "Starting Telegram Bot with Gemini AI...", "", ""))
    /\ pc' = "start_health"
    /\ UNCHANGED <<env, exitCode, configured, model, appBuilt, handlers, errorHandlers>>
    /\ UNCHANGED <<httpVars, botVars, trace>>

\* lines 128-129
StartHealthThread ==
    /\ pc = "start_health"
    /\ health' = "started"
    /\ pc' = "new_bot"
    /\ UNCHANGED <<env, exitCode, configured, model, appBuilt, handlers, errorHandlers, syslog>>
    /\ UNCHANGED <<httpReq, httpResp, botVars, trace>>

\* line 132, TelegramBot.__init__ (lines 58-61)
CreateBot ==
    /\ pc = "new_bot"
    /\ model' = ModelName
    /\ syslog' = Append(syslog, Log("INFO", "Bot initialized with Gemini AI", "", ""))
    /\ pc' = "build_app"
    /\ UNCHANGED <<env, exitCode, configured, appBuilt, handlers, errorHandlers>>
    /\ UNCHANGED <<httpVars, botVars, trace>>

\* line 135
BuildApp ==
    /\ pc = "build_app"
    /\ appBuilt' = TRUE
    /\ pc' = "add_start"
    /\ UNCHANGED <<env, exitCode, configured, model, handlers, errorHandlers, syslog>>
    /\ UNCHANGED <<httpVars, botVars, trace>>

\* CommandHandler(command, callback)
CommandHandler(command, callback) ==
    [kind |-> "command", cmd |-> command, cb |-> callback]

\* MessageHandler(filters.TEXT & ~filters.COMMAND, callback)
MessageHandler(callback) ==
    [kind |-> "text_not_command", cmd |-> "", cb |-> callback]

\* lines 138-140
AddHandlers ==
    /\ \/ /\ pc = "add_start"
          /\ handlers' = Append(handlers, CommandHandler("start", "start_command"))
          /\ pc' = "add_help"
       \/ /\ pc = "add_help"
          /\ handlers' = Append(handlers, CommandHandler("help", "help_command"))
          /\ pc' = "add_message"
       \/ /\ pc = "add_message"
          /\ handlers' = Append(handlers, MessageHandler("handle_message"))
          /\ pc' = "add_error"
    /\ UNCHANGED <<env, exitCode, configured, model, appBuilt, errorHandlers, syslog>>
    /\ UNCHANGED <<httpVars, botVars, trace>>

\* line 141
AddErrorHandler ==
    /\ pc = "add_error"
    /\ errorHandlers' = Append(errorHandlers, "error_handler")
    /\ pc' = "run_polling"
    /\ UNCHANGED <<env, exitCode, configured, model, appBuilt, handlers, syslog>>
    /\ UNCHANGED <<httpVars, botVars, trace>>

\* lines 143-146
RunPolling ==
    /\ pc = "run_polling"
    /\ syslog' = Append(syslog, Log("INFO", "Bot is running! Press Ctrl+C to stop.", "", ""))
    /\ pc' = "polling"
    /\ UNCHANGED <<env, exitCode, configured, model, appBuilt, handlers, errorHandlers>>
    /\ UNCHANGED <<httpVars, botVars, trace>>

Boot ==
    \/ CheckToken
    \/ CheckKey
    \/ Configure
    \/ MainStart
    \/ StartHealthThread
    \/ CreateBot
    \/ BuildApp
    \/ AddHandlers
    \/ AddErrorHandler
    \/ RunPolling

----------------------------------------------------------------------------
(* Health responder: HealthHandler (lines 41-49), run_health_server (51-55) *)

Paths == {"/", "/health"}

\* int(os.environ.get('PORT', 10000))
HealthPort(port) ==
    CASE port = None -> DefaultPort
      [] port = "8080" -> 8080

\* f"{port}"
FormatPort(port) ==
    CASE port = DefaultPort -> "10000"
      [] port = 8080 -> "8080"

\* lines 52-55: the thread binds the port and serves, or HTTPServer(...) raises
\* (the port is already bound) and the thread ends; the main thread goes on
RunHealthServer ==
    /\ health = "started"
    /\ \/ /\ health' = "serving"
          /\ syslog' = Append(syslog, Log("INFO", "Health server running on port",
                                        FormatPort(HealthPort(env.port)), ""))
       \/ /\ health' = "crashed"
          /\ UNCHANGED syslog
    /\ UNCHANGED <<env, bootVars, httpReq, httpResp, botVars, trace>>

\* a client sends GET <path>; the serving socket accepts it
HttpGet(path) ==
    /\ health = "serving"
    /\ Len(httpReq) + Len(httpResp) < MaxRequests
    /\ httpReq' = Append(httpReq, path)
    /\ UNCHANGED <<env, bootVars, health, httpResp, botVars, syslog, trace>>

\* what do_GET writes for the request on `path` (lines 43-46)
HealthResponse(path) ==
    [path |-> path, status |-> HealthStatus, ctype |-> HealthContentType,
     body |-> HealthBody]

\* DoGET run as a task of the bot's event loop where the code runs it on a
\* thread of its own
DoGETOnEventLoop ==
    /\ health = "serving"
    /\ httpReq # <<>>
    /\ busy = 0
    /\ httpResp' = Append(httpResp, HealthResponse(Head(httpReq)))
    /\ httpReq' = Tail(httpReq)
    /\ UNCHANGED <<env, bootVars, health, botVars, syslog, trace>>

\* HealthHandler.do_GET, run by the health thread; log_message writes nothing
DoGET ==
    /\ health = "serving"
    /\ httpReq # <<>>
    /\ httpResp' = Append(httpResp, HealthResponse(Head(httpReq)))
    /\ httpReq' = Tail(httpReq)
    /\ UNCHANGED <<env, bootVars, health, botVars, syslog, trace>>

Health ==
    \/ RunHealthServer
    \/ \E path \in Paths : HttpGet(path)
    \/ DoGET

----------------------------------------------------------------------------
(* Dispatch: which registered handler takes an update (lines 138-140) *)

\* filters.COMMAND: the text starts with a bot command
IsCommand(text) == Len(text) > 0 /\ SubSeq(text, 1, 1) = "/"

\* the command a command text names
CommandName(text) ==
    CASE text = "/start" -> "start"
      [] text = "/help" -> "help"
      [] text = "/other" -> "other"
      [] OTHER -> ""

\* does the registered handler h take an update whose effective message has
\* this text; neither handler is given a filter on the kind of update, so an
\* edited message is taken like a new one
Matches(h, text) ==
    IF h.kind = "command"
      THEN IsCommand(text) /\ CommandName(text) = h.cmd
      ELSE ~IsCommand(text)

\* the callback of the first registered handler that matches, "" when none does
Route(text, hs) ==
    LET hits == {i \in 1..Len(hs) : Matches(hs[i], text)}
    IN  IF hits = {} THEN ""
        ELSE hs[CHOOSE i \in hits : \A j \in hits : i <= j].cb

----------------------------------------------------------------------------
(* Conversation handlers: TelegramBot (lines 57-121) *)

NoLocals == [user_message |-> "", user_name |-> "", exc |-> "", excFrom |-> ""]

\* ReplyChat reading a chat identifier kept on the bot object, which the
\* latest update overwrites, where the code reads the handler's own update
ReplyChatOfLatest(e) == events[Len(events)].chat

\* update.effective_chat.id / the chat update.message.reply_text answers in
ReplyChat(e) == events[e].chat

\* update.effective_user.first_name
FirstName(e) == events[e].name

\* the length of the slice of line 97
PreviewLen == 50

\* user_message[:50]: the first 50 characters, the whole text when it is shorter
Preview(text) ==
    SubSeq(text, 1, IF Len(text) < PreviewLen THEN Len(text) ELSE PreviewLen)

\* the event loop runs a step of a handler only while no synchronous call blocks it
LoopFree == pc = "polling" /\ busy = 0

\* the handling of event e adds records to its history
Emit(e, records) == trace' = [trace EXCEPT ![e] = @ \o records]

\* the exception str(e) = detail raised by `from` leaves the handler
Escape(e, from, detail) ==
    /\ hpc' = [hpc EXCEPT ![e] = "raised"]
    /\ loc' = [loc EXCEPT ![e].exc = detail, ![e].excFrom = from]

\* polling delivers one more update, the run's limit allowing
Arrive(limit, update) ==
    /\ pc = "polling"
    /\ Len(events) < limit
    /\ events' = Append(events, update)
    /\ hpc' = Append(hpc, "queued")
    /\ loc' = Append(loc, NoLocals)
    /\ trace' = Append(trace, <<>>)
    /\ UNCHANGED <<env, bootVars, httpVars, busy, syslog>>

\* update.message is not None
HasMessage(e) == events[e].kind = "message"

\* start_command up to its await (lines 65-74), or up to the AttributeError of
\* update.message.reply_text at line 74
StartCommand(e) ==
    IF HasMessage(e)
      THEN /\ Emit(e, << ReplyText(ReplyChat(e), WelcomeMessage, "") >>)
           /\ hpc' = [hpc EXCEPT ![e] = "start_reply"]
           /\ UNCHANGED loc
      ELSE /\ Escape(e, "update.message", NoReplyText)
           /\ UNCHANGED trace

\* HelpCommand without parse_mode='Markdown'
HelpCommandPlain(e) ==
    IF HasMessage(e)
      THEN /\ Emit(e, << ReplyText(ReplyChat(e), HelpText, "") >>)
           /\ hpc' = [hpc EXCEPT ![e] = "help_reply"]
           /\ UNCHANGED loc
      ELSE /\ Escape(e, "update.message", NoReplyText)
           /\ UNCHANGED trace

\* help_command up to its await (lines 79-90), or up to the AttributeError of
\* update.message.reply_text at line 90
HelpCommand(e) ==
    IF HasMessage(e)
      THEN /\ Emit(e, << ReplyText(ReplyChat(e), HelpText, "Markdown") >>)
           /\ hpc' = [hpc EXCEPT ![e] = "help_reply"]
           /\ UNCHANGED loc
      ELSE /\ Escape(e, "update.message", NoReplyText)
           /\ UNCHANGED trace

\* handle_message up to its first await (lines 94-100), or up to the
\* AttributeError of update.message.text at line 94
HandleMessage(e) ==
    IF HasMessage(e)
      THEN /\ loc' = [loc EXCEPT ![e].user_message = events[e].text,
                                 ![e].user_name = FirstName(e)]
           /\ Emit(e, << Log("INFO", "Received message from {user_name}: {preview}...",
                            FirstName(e), Preview(events[e].text)),
                         SendChatAction(ReplyChat(e), "typing") >>)
           /\ hpc' = [hpc EXCEPT ![e] = "msg_typing"]
      ELSE /\ Escape(e, "update.message", NoText)
           /\ UNCHANGED trace

\* the dispatch loop takes the oldest update not yet taken and calls the
\* handler that matches it; an update no handler matches is dropped
Dispatch(e) ==
    /\ LoopFree
    /\ hpc[e] = "queued"
    /\ \A d \in 1..(e - 1) : hpc[d] # "queued"
    /\ LET cb == Route(events[e].text, handlers)
       IN  CASE cb = "start_command" -> StartCommand(e)
             [] cb = "help_command" -> HelpCommand(e)
             [] cb = "handle_message" -> HandleMessage(e)
             [] OTHER -> /\ hpc' = [hpc EXCEPT ![e] = "ignored"]
                         /\ UNCHANGED <<loc, trace>>
    /\ UNCHANGED <<env, syslog, bootVars, httpVars, events, busy>>

\* StartReplied without the logger.info call
StartRepliedNoLog(e) ==
    /\ LoopFree
    /\ hpc[e] = "start_reply"
    /\ \/ /\ hpc' = [hpc EXCEPT ![e] = "done"]
          /\ UNCHANGED <<loc, trace>>
       \/ \E d \in SendErrors :
            /\ Emit(e, << Answer("reply_raise", "", d) >>)
            /\ Escape(e, "reply", d)
    /\ UNCHANGED <<env, syslog, bootVars, httpVars, events, busy>>

\* start_command after its await (lines 74-75)
StartReplied(e) ==
    /\ LoopFree
    /\ hpc[e] = "start_reply"
    /\ \/ /\ Emit(e, << Log("INFO", "Started conversation with user", FirstName(e), "") >>)
          /\ hpc' = [hpc EXCEPT ![e] = "done"]
          /\ UNCHANGED loc
       \/ \E d \in SendErrors :
            /\ Emit(e, << Answer("reply_raise", "", d) >>)
            /\ Escape(e, "reply", d)
    /\ UNCHANGED <<env, syslog, bootVars, httpVars, events, busy>>

\* help_command after its await (line 90)
HelpReplied(e) ==
    /\ LoopFree
    /\ hpc[e] = "help_reply"
    /\ \/ /\ hpc' = [hpc EXCEPT ![e] = "done"]
          /\ UNCHANGED <<loc, trace>>
       \/ \E d \in SendErrors :
            /\ Emit(e, << Answer("reply_raise", "", d) >>)
            /\ Escape(e, "reply", d)
    /\ UNCHANGED <<env, syslog, bootVars, httpVars, events, busy>>

\* handle_message after send_chat_action (lines 100-104): it returned and the
\* handler enters the synchronous generate_content call, or it raised outside
\* the try block
TypingReturned(e) ==
    /\ LoopFree
    /\ hpc[e] = "msg_typing"
    /\ \/ /\ Emit(e, << GenerateContent(loc[e].user_message, model) >>)
          /\ hpc' = [hpc EXCEPT ![e] = "msg_ai"]
          /\ busy' = e
          /\ UNCHANGED loc
       \/ \E d \in SendErrors :
            /\ Emit(e, << Answer("chat_action_raise", "", d) >>)
            /\ Escape(e, "chat_action", d)
            /\ UNCHANGED busy
    /\ UNCHANGED <<env, syslog, bootVars, httpVars, events>>

\* ExceptBranch without the logger.error call
ExceptBranchSilent(e, detail) ==
    << ReplyText(ReplyChat(e), ErrorMessage, "") >>

\* the except branch of handle_message for the exception str(e) = detail
\* (lines 111-117), up to its await
ExceptBranch(e, detail) ==
    << Log("ERROR", "Error generating AI response:", detail, ""),
       ReplyText(ReplyChat(e), ErrorMessage, "") >>

\* handle_message when the AI call is over (lines 104-108, 111-117):
\* response.text holds a text, or generate_content or response.text raised
AiReturned(e) ==
    /\ pc = "polling"
    /\ busy = e
    /\ hpc[e] = "msg_ai"
    /\ \/ \E t \in AiTexts :
            /\ Emit(e, << Answer("ai_text", t, ""), ReplyText(ReplyChat(e), t, "") >>)
            /\ hpc' = [hpc EXCEPT ![e] = "msg_reply"]
       \/ \E d \in GenerateErrors \cup TextErrors :
            /\ Emit(e, << Answer("ai_raise", "", d) >> \o ExceptBranch(e, d))
            /\ hpc' = [hpc EXCEPT ![e] = "msg_apology"]
    /\ busy' = 0
    /\ UNCHANGED <<env, syslog, bootVars, httpVars, events, loc>>

\* handle_message after reply_text(ai_response) (lines 108-117): it returned,
\* or it raised inside the try block
ReplyReturned(e) ==
    /\ LoopFree
    /\ hpc[e] = "msg_reply"
    /\ \/ /\ Emit(e, << Log("INFO", "Sent AI response to", loc[e].user_name, "") >>)
          /\ hpc' = [hpc EXCEPT ![e] = "done"]
       \/ \E d \in SendErrors :
            /\ Emit(e, << Answer("reply_raise", "", d) >> \o ExceptBranch(e, d))
            /\ hpc' = [hpc EXCEPT ![e] = "msg_apology"]
    /\ UNCHANGED <<env, syslog, bootVars, httpVars, events, loc, busy>>

\* handle_message after reply_text(error_message) (line 117): it returned, or
\* it raised inside the except branch
ApologyReturned(e) ==
    /\ LoopFree
    /\ hpc[e] = "msg_apology"
    /\ \/ /\ hpc' = [hpc EXCEPT ![e] = "done"]
          /\ UNCHANGED <<loc, trace>>
       \/ \E d \in SendErrors :
            /\ Emit(e, << Answer("reply_raise", "", d) >>)
            /\ Escape(e, "reply", d)
    /\ UNCHANGED <<env, syslog, bootVars, httpVars, events, busy>>

\* ErrorHandler telling the user about the error where the code only logs
ErrorHandlerTellsUser(e) ==
    /\ LoopFree
    /\ hpc[e] = "raised"
    /\ errorHandlers # <<>>
    /\ Emit(e, << LogUpdate("ERROR", "Update {update} caused error {error}", events[e], loc[e].exc),
                  ReplyText(ReplyChat(e), ErrorMessage, "") >>)
    /\ hpc' = [hpc EXCEPT ![e] = "errored"]
    /\ UNCHANGED <<env, syslog, bootVars, httpVars, events, loc, busy>>

\* error_handler (lines 119-121), called by the dispatch loop with the
\* exception that left a handler
ErrorHandler(e) ==
    /\ LoopFree
    /\ hpc[e] = "raised"
    /\ errorHandlers # <<>>
    /\ Emit(e, << LogUpdate("ERROR", "Update {update} caused error {error}", events[e], loc[e].exc) >>)
    /\ hpc' = [hpc EXCEPT ![e] = "errored"]
    /\ UNCHANGED <<env, syslog, bootVars, httpVars, events, loc, busy>>

Bot(limit) ==
    \/ \E update \in Updates : Arrive(limit, update)
    \/ \E e \in DOMAIN events :
         \/ Dispatch(e)
         \/ StartReplied(e)
         \/ HelpReplied(e)
         \/ TypingReturned(e)
         \/ AiReturned(e)
         \/ ReplyReturned(e)
         \/ ApologyReturned(e)
         \/ ErrorHandler(e)

----------------------------------------------------------------------------

(* The program with the health thread started and no client of its endpoint *)

Next == Boot \/ RunHealthServer \/ Bot(MaxEvents)

Spec == Init /\ [][Next]_vars

(* The program and the clients of the health endpoint *)

NextHealth == Boot \/ Health \/ Bot(MaxHealthEvents)

SpecHealth == InitHealth /\ [][NextHealth]_vars

----------------------------------------------------------------------------
(* Reading the history of an event *)

\* the records of one kind in the history of event e, in order
Ops(e, op) == SelectSeq(trace[e], LAMBDA r : r.op = op)

\* the reply_text calls made while handling event e, in order
Replies(e) == Ops(e, "reply")

\* the handler called for event e has returned or raised
HandlerOver(e) == hpc[e] \in {"done", "raised", "errored"}

\* event e is a plain-text event whose handler has been called
IsTextEvent(e) == ~IsCommand(events[e].text) /\ hpc[e] # "queued"

\* the reply the handler of e addresses to e's own chat
OwnReply(e, body, parseMode) == ReplyText(events[e].chat, body, parseMode)

----------------------------------------------------------------------------
(* Properties *)

\* C1 (as claimed): for every plain-text event whose AI call returned a text T,
\* every reply sent for the event is T itself, with no format hint, in the
\* event's chat, the apology is not sent, and once the handler is over exactly
\* one reply has been sent.
C1_ReplyIsAiText ==
    \A e \in DOMAIN events :
      \A i \in DOMAIN trace[e] :
        (IsTextEvent(e) /\ trace[e][i].op = "ai_text") =>
            /\ \A j \in DOMAIN Replies(e) :
                 Replies(e)[j] = OwnReply(e, trace[e][i].text, "")
            /\ HandlerOver(e) => Len(Replies(e)) = 1

\* C9 (as claimed): a handler invocation sends at most one reply for its event.
C9_AtMostOneReply ==
    \A e \in DOMAIN events : Len(Replies(e)) <= 1

\* C10 (as claimed, for the plain-text events that are new messages): once the
\* handler of the event is over, whether the typing indicator succeeded or
\* failed, the typing indicator was emitted, then the AI adapter was called
\* exactly once with the raw message text, and exactly one reply was sent.
C10_TypingIsBestEffort ==
    \A e \in DOMAIN events :
      (IsTextEvent(e) /\ HasMessage(e) /\ HandlerOver(e)) =>
          /\ Len(Ops(e, "chat_action")) = 1
          /\ Len(Ops(e, "ai")) = 1
          /\ Ops(e, "ai")[1].text = events[e].text
          /\ \E i, j \in DOMAIN trace[e] :
               /\ i < j
               /\ trace[e][i].op = "chat_action"
               /\ trace[e][j].op = "ai"
          /\ Len(Replies(e)) = 1

\* C2: for every plain-text event whose AI call raised (in generate_content or
\* in response.text), the failure is caught in the handler: an ERROR log record
\* carrying the failure's message string follows at once, then the reply, which
\* is the fixed apology in the event's chat and the only reply sent for the
\* event; if an exception leaves the handler it is not the AI failure.
C2_AiFailureApology ==
    \A e \in DOMAIN events :
      \A i \in DOMAIN trace[e] :
        (IsTextEvent(e) /\ trace[e][i].op = "ai_raise") =>
            /\ Len(trace[e]) >= i + 2
            /\ trace[e][i + 1] =
                 Log("ERROR", "Error generating AI response:", trace[e][i].arg, "")
            /\ trace[e][i + 2] = OwnReply(e, ErrorMessage, "")
            /\ Replies(e) = << OwnReply(e, ErrorMessage, "") >>
            /\ hpc[e] \in {"msg_apology", "done", "raised", "errored"}
            /\ hpc[e] \in {"raised", "errored"} => loc[e].excFrom = "reply"

\* C2, witness: the AI call of a plain-text event raised in response.text and
\* the handler has returned after sending the apology.
C2_Witness ==
    \E e \in DOMAIN events :
      /\ hpc[e] = "done"
      /\ \E i \in DOMAIN trace[e] :
           trace[e][i].op = "ai_raise" /\ trace[e][i].arg \in TextErrors

\* C3: if TELEGRAM_BOT_TOKEN or GEMINI_API_KEY is unset or empty, the AI client
\* is never configured, the health thread never started, the bot and the
\* application never built, no handler registered and polling never entered;
\* the process can always take its next start-up step until it has exited, and
\* it exits with code 1 after logging exactly one error.
C3_MissingSecretExits ==
    (env.token \in {None, ""} \/ env.key \in {None, ""}) =>
        /\ ~configured
        /\ health = "not_started"
        /\ model = ""
        /\ ~appBuilt
        /\ handlers = <<>>
        /\ errorHandlers = <<>>
        /\ events = <<>>
        /\ pc \in {"check_token", "check_key", "exited"}
        /\ pc # "exited" => exitCode = -1 /\ ENABLED Boot
        /\ pc = "exited" =>
             /\ exitCode = 1
             /\ Len(syslog) = 1
             /\ syslog[1].mode = "ERROR"

\* C3, witness: the token is set, the API key is the empty string, and the
\* process has exited.
C3_Witness ==
    /\ env.token = "secret"
    /\ env.key = ""
    /\ pc = "exited"

\* C4: every call handed to the transport while handling an event (typing
\* indicator, AI reply or apology) is addressed to that event's own chat; the AI
\* prompt is that event's own text; every reply body is the apology or the text
\* the AI returned for that event's own call.
C4_NoCrossDelivery ==
    \A e \in DOMAIN events :
      \A i \in DOMAIN trace[e] :
        LET r == trace[e][i]
        IN  /\ r.op \in {"chat_action", "reply"} => r.chat = events[e].chat
            /\ r.op = "ai" => r.text = events[e].text
            /\ (r.op = "reply" /\ IsTextEvent(e)) =>
                 \/ r.text = ErrorMessage
                 \/ /\ i > 1
                    /\ trace[e][i - 1].op = "ai_text"
                    /\ trace[e][i - 1].text = r.text

\* C4, witness: two plain-text events of different chats are being handled at
\* once: the second was taken while the first awaited its reply, and its AI
\* call is outstanding.
C4_Witness ==
    /\ Len(events) >= 2
    /\ events[1].chat # events[2].chat
    /\ hpc[1] = "msg_reply"
    /\ hpc[2] = "msg_ai"

\* C5: every response of the health endpoint, whatever the path, has status
\* 200, content type text/plain and body "Telegram Bot is running!", and a
\* request the server has accepted can be answered in every state of the bot
\* loop.
C5_HealthAlwaysAnswers ==
    /\ \A i \in DOMAIN httpResp :
         /\ httpResp[i].status = 200
         /\ httpResp[i].ctype = "text/plain"
         /\ httpResp[i].body = "Telegram Bot is running!"
    /\ httpReq # <<>> => ENABLED DoGET

\* C5, witness: a request is waiting for its answer while the bot loop is
\* blocked in an AI call.
C5_Witness ==
    /\ httpReq # <<>>
    /\ busy # 0

\* the log record r contains the display name `name`: as the name a handler
\* formats into its message, or inside the update the error handler formats
LogContainsName(r, name) ==
    /\ r.op = "log"
    /\ r.arg = name \/ r.upd.name = name

\* the event has been dealt with: its handler returned, or raised and the
\* error handler has run
DealtWith(e) == hpc[e] \in {"done", "errored"}

\* the whole history of an event whose handler raised on update.message being
\* None, once the error handler has run: its one ERROR record
OnlyErrorLog(e, detail) ==
    << LogUpdate("ERROR", "Update {update} caused error {error}", events[e], detail) >>

Escaped(e) == hpc[e] \in {"raised", "errored"}

\* C8: an exception that left a handler can always be given to the error
\* handler when the event loop runs; the error handler adds one ERROR log
\* record with the error and the update, and nothing else; afterwards nothing
\* more is done for the event (no reply, no retry); the dispatch loop stays in
\* polling and can still take the oldest waiting update.
C8_EscapedIsLoggedOnly ==
    /\ [](\A e \in DOMAIN events :
            /\ (hpc[e] = "raised" /\ LoopFree) => ENABLED ErrorHandler(e)
            /\ Escaped(e) => pc = "polling"
            /\ (/\ hpc[e] = "queued"
                /\ LoopFree
                /\ \A d \in 1..(e - 1) : hpc[d] # "queued") => ENABLED Dispatch(e))
    /\ [][\A e \in DOMAIN events :
            /\ hpc[e] = "raised" =>
                 \/ hpc'[e] = "raised" /\ trace'[e] = trace[e]
                 \/ /\ hpc'[e] = "errored"
                    /\ trace'[e] = Append(trace[e],
                           LogUpdate("ERROR", "Update {update} caused error {error}", events[e], loc[e].exc))
            /\ hpc[e] = "errored" => hpc'[e] = "errored" /\ trace'[e] = trace[e]
            /\ Escaped(e) => Replies(e) = SelectSeq(trace'[e], LAMBDA r : r.op = "reply")
         ]_vars

\* C8, witness: the error handler has run for the first event, whose handler
\* raised, and the handler of a later event has returned.
C8_Witness ==
    /\ Len(events) >= 2
    /\ hpc[1] = "errored"
    /\ hpc[2] = "done"

====
